---- MODULE Spec2Model ----
(***************************************************************************)
(* A model of the yeet generator runtime (src/src/lib.rs, src/src/sys).    *)
(*                                                                         *)
(* Every task (the root consumer, context 0, and one producer per          *)
(* Generator, context g) has a call stack of frames; exactly one context   *)
(* `cur` executes.  The frames follow the functions of the source:         *)
(* Generator::next, Generator::enter_with, sys::enter, sys::exit,          *)
(* yield_internal, yeet, yeet_all, Drop::drop and generator_start.         *)
(* A Task lives inline in its Generator, so a pointer to a Task is the     *)
(* pair <<g, a>> of the generator and the address it had when the pointer  *)
(* was taken; a pointer whose address is not the generator's current one   *)
(* is dangling.                                                            *)
(***************************************************************************)
EXTENDS Integers, Sequences, FiniteSets, TLC

(***************************************************************************)
(* Bounds of the model.                                                    *)
(***************************************************************************)
\* longest flat generator function, in statements
MaxLen == 3
\* how often the root consumer moves its Generator
MaxMoves == 2
\* next calls the root consumer makes beyond the length of the sequence
ExtraCalls == 2
\* depth of the tree of the dfs test (tests/recursive.rs uses 3)
DfsDepth == 2

(***************************************************************************)
(* Messages.  Yield<T> (lib.rs 227-239), Send (lib.rs 215-220) and the     *)
(* Option<T> returned by next are records of one shape, so that a mailbox  *)
(* or a return register can hold any of them.                              *)
(***************************************************************************)
Msg(tag, v, p) == [tag |-> tag, v |-> v, p |-> p]
Value(v) == Msg("Value", v, "")
StopIteration == Msg("StopIteration", 0, "")
Panic(p) == Msg("Panic", 0, p)
Continue == Msg("Continue", 0, "")
Cancel == Msg("Cancel", 0, "")
Some(v) == Msg("Some", v, "")
None == Msg("None", 0, "")
Unit == Msg("Unit", 0, "")
\* a MaybeUninit that holds nothing: never written, or moved out by a read
Uninit == Msg("Uninit", 0, "")

\* the payload of the private cancellation signal
CancelTask == "CancelTask"
\* the messages of the two panics of yield_internal
OutsideMsg == "Tried to yield from outside a generator!"
WrongTypeMsg == "Tried to yield a value of the wrong type!"

(***************************************************************************)
(* Generator functions.  A generator function is a sequence of statements: *)
(*   yeet   yeet::<ty>(v)                                                  *)
(*   guard  let _g = a value with a destructor (counted when it runs)      *)
(*   panic  panic_any(p)                                                   *)
(*   new    let slot = Generator::<ty>::from_fn_ptr(prog)                  *)
(*   pull   if let Some(v) = slot.next() { yeet::<T>(v) }                  *)
(*   all    yeet_all(slot)                                                 *)
(*   catch  let _ = catch_unwind(|| { body })                              *)
(*          or, with again, loop { let _ = catch_unwind(|| { body }) }     *)
(* and returns after the last one.                                         *)
(***************************************************************************)
IYeet(v) == [op |-> "yeet", v |-> v, ty |-> "T"]
IYeetTy(v, ty) == [op |-> "yeet", v |-> v, ty |-> ty]
IGuard == [op |-> "guard"]
IPanic(p) == [op |-> "panic", p |-> p]
INew(slot, prog) == [op |-> "new", slot |-> slot, prog |-> prog, ty |-> "T"]
INewTy(slot, prog, ty) == [op |-> "new", slot |-> slot, prog |-> prog, ty |-> ty]
IPull(slot) == [op |-> "pull", slot |-> slot]
IAll(slot) == [op |-> "all", slot |-> slot]
ICatch(body) == [op |-> "catch", body |-> body, again |-> FALSE]
ICatchLoop(body) == [op |-> "catch", body |-> body, again |-> TRUE]

\* the statements of the flat generator functions; the i-th statement, when it
\* is a yeet, yields i, so that no two yeets of a function yield the same value
FlatOps == {"yeet", "guard", "panic"}
FlatStmt(op, i) ==
    CASE op = "yeet" -> IYeet(i)
      [] op = "guard" -> IGuard
      [] op = "panic" -> IPanic("boom")

\* every flat generator function of at most n statements
FlatProgs(n) ==
    UNION {{[i \in 1..k |-> FlatStmt(ops[i], i)] : ops \in [1..k -> FlatOps]} : k \in 0..n}

\* tests/recursive.rs simple: simple_1 and simple_0
Simple1 == <<IYeet(1)>>
Simple0 == <<INew(1, Simple1), IYeet(0), IAll(1)>>

\* tests/recursive.rs panic_propagation: simple_1 and simple_0
PanicSimple1 == <<IPanic("This should panic!")>>
PanicSimple0 == <<INew(1, PanicSimple1), IYeet(0), IAll(1)>>

\* tests/recursive.rs dfs: dfs_d yields d, then all of two children dfs_(d+1);
\* the leaves, at depth DfsDepth, yield their depth only
RECURSIVE Dfs(_)
Dfs(d) ==
    IF d >= DfsDepth THEN <<IYeet(d)>>
    ELSE <<INew(1, Dfs(d + 1)), INew(2, Dfs(d + 1)), IYeet(d), IAll(1), IAll(2)>>

\* a producer that holds a started child, an unstarted child and a guard while
\* it is parked in yeet
Holder ==
    <<IGuard, INew(1, <<IGuard, IYeet(1), IGuard, IYeet(2)>>), INew(2, <<IYeet(3)>>),
      IPull(1), IGuard, IYeet(4), IAll(1), IYeet(5)>>

\* a producer that runs one child while another, started, is parked
TwoHeld ==
    <<INew(1, <<IYeet(1), IYeet(2)>>), INew(2, <<IYeet(3)>>), IPull(1), IAll(2), IAll(1)>>

\* a producer whose child faults after a value, behind a guard
ChildFault ==
    <<IGuard, INew(1, <<IGuard, IYeet(1), IPanic("inner")>>), IYeet(0), IPull(1), IAll(1),
      IYeet(9)>>

\* producers that break the rule of lib.rs 209-211 and catch what yeet raises:
\* one goes on to fault, one goes on to yield
CatchThenFault == <<IGuard, ICatch(<<IYeet(1)>>), IPanic("late")>>
CatchThenYield == <<IGuard, ICatch(<<IGuard, IYeet(1)>>), IYeet(2), IYeet(3)>>
\* a producer that faults while it holds a parked child that catches
CatcherHeld == <<INew(1, CatchThenFault), IPull(1), IPanic("outer")>>

\* a producer that catches and then faults while it holds a parked child
CatchHolder ==
    <<INew(1, <<IGuard, IYeet(1), IYeet(2)>>), IPull(1), ICatch(<<IYeet(5)>>), IPanic("late")>>

CatchProgs == {CatchThenFault, CatchThenYield, CatcherHeld, CatchHolder}

\* a producer that catches what yeet raises and yields again, for ever, and a
\* producer that holds one
CatchForever == <<ICatchLoop(<<IYeet(1)>>)>>
ForeverHeld == <<INew(1, CatchForever), IPull(1), IYeet(9)>>
LoopProgs == {CatchForever, ForeverHeld}

\* producers that break the rule of lib.rs 173-174: a yeet of another type
\* than that of the Generator that runs them.  In Mixed the yeet::<T> of the
\* child, a Generator<U>, has the type of the producer that pulls it; in
\* AllMixed a Generator<T> hands a Generator<U> to yeet_all.
WrongType == <<IGuard, IYeet(1), IYeetTy(2, "U"), IYeet(3)>>
Mixed ==
    <<INewTy(1, <<IYeetTy(1, "U"), IYeetTy(2, "T"), IYeetTy(3, "U")>>, "U"), IYeet(0),
      IPull(1), IPull(1), IYeet(9)>>
AllMixed == <<INewTy(1, <<IYeetTy(5, "U"), IYeetTy(6, "U")>>, "U"), IAll(1), IYeet(9)>>
TypeProgs == {WrongType, Mixed, AllMixed}

TreeProgs ==
    {Simple0, PanicSimple0, Dfs(0), Holder, TwoHeld, ChildFault} \cup CatchProgs \cup TypeProgs

\* the generator functions the root consumer is run with
RootProgs == FlatProgs(MaxLen) \cup TreeProgs

(***************************************************************************)
(* What a generator function is written to produce: the values it yields   *)
(* in program order, where a child is read as the sequence it is written   *)
(* to produce, and how it ends ("return", or the payload it faults with).  *)
(* env maps a slot to what is left of the child's sequence.  This is the   *)
(* function as its consumer resumes it with Continue.                      *)
(***************************************************************************)
Outcome(vals, end) == [vals |-> vals, end |-> end]
\* what is left of a child Generator<ty>
Held(o, ty) == [vals |-> o.vals, end |-> o.end, ty |-> ty]

\* ty is the T of the Generator<T> that runs the function
RECURSIVE Denote(_, _, _, _, _)
Denote(prog, ty, pc, env, acc) ==
    IF pc > Len(prog) THEN Outcome(acc, "return")
    ELSE LET i == prog[pc] IN
      CASE i.op = "yeet" ->
             IF i.ty = ty THEN Denote(prog, ty, pc + 1, env, Append(acc, i.v))
             ELSE Outcome(acc, WrongTypeMsg)
        [] i.op = "guard" -> Denote(prog, ty, pc + 1, env, acc)
        [] i.op = "panic" -> Outcome(acc, i.p)
        [] i.op = "new" ->
             Denote(prog, ty, pc + 1,
                    [s \in DOMAIN env \cup {i.slot} |->
                        IF s = i.slot THEN Held(Denote(i.prog, i.ty, 1, <<>>, <<>>), i.ty)
                        ELSE env[s]],
                    acc)
        [] i.op = "pull" ->
             LET c == env[i.slot] IN
             IF c.vals # <<>> THEN
                 IF ty # "T" THEN Outcome(acc, WrongTypeMsg)
                 ELSE Denote(prog, ty, pc + 1,
                             [env EXCEPT ![i.slot] = [c EXCEPT !.vals = Tail(@)]],
                             Append(acc, Head(c.vals)))
             ELSE IF c.end # "return" THEN Outcome(acc, c.end)
             ELSE Denote(prog, ty, pc + 1, env, acc)
        [] i.op = "all" ->
             LET c == env[i.slot] IN
             IF c.vals # <<>> /\ c.ty # ty THEN Outcome(acc, WrongTypeMsg)
             ELSE IF c.end # "return" THEN Outcome(acc \o c.vals, c.end)
             ELSE Denote(prog, ty, pc + 1, env, acc \o c.vals)
        [] i.op = "catch" ->
             LET body == Denote(i.body, ty, 1, <<>>, <<>>).vals IN
             \* a loop has no end: it is cut after its first round
             IF i.again THEN Outcome(acc \o body, "loop")
             ELSE Denote(prog, ty, pc + 1, env, acc \o body)

\* what a Generator<ty> made of prog is to give, and a Generator<T>
ExpectedOf(prog, ty) == Denote(prog, ty, 1, <<>>, <<>>)
Expected(prog) == ExpectedOf(prog, "T")

\* the i-th result a consumer of `prog` is to get from next: the values, then
\* the fault if it ends in one, then end-of-sequence for ever
ExpectedResultOf(prog, ty, i) ==
    LET e == ExpectedOf(prog, ty) IN
    IF i <= Len(e.vals) THEN Some(e.vals[i])
    ELSE IF i = Len(e.vals) + 1 /\ e.end # "return" THEN Panic(e.end)
    ELSE None
ExpectedResult(prog, i) == ExpectedResultOf(prog, "T", i)

\* the generator function, or that of a Generator it makes, calls catch_unwind
RECURSIVE Catches(_)
Catches(prog) ==
    \E i \in 1..Len(prog) :
        \/ prog[i].op = "catch"
        \/ prog[i].op = "new" /\ Catches(prog[i].prog)

\* the generators a generator function creates, itself included
RECURSIVE CountGens(_)
RECURSIVE CountGensFrom(_, _)
CountGensFrom(prog, pc) ==
    IF pc > Len(prog) THEN 0
    ELSE (IF prog[pc].op = "new" THEN CountGens(prog[pc].prog) ELSE 0)
         + CountGensFrom(prog, pc + 1)
CountGens(prog) == 1 + CountGensFrom(prog, 1)


(***************************************************************************)
(* State.                                                                  *)
(***************************************************************************)
VARIABLES
    gen,        \* the Generators: the Generator and Task fields, by generator
    TASK_STACK, \* the thread-local stack of task pointers (lib.rs 131-141)
    stk,        \* the call stack of every context: 0 the root, g a producer
    cur,        \* the context that executes; -1 once the process has aborted
    rootProg,   \* the generator function the root consumer was given
    obs,        \* what the root consumer's next calls returned, in order
    calls,      \* the next calls the root consumer has made
    moves,      \* the moves the root consumer has made
    ub          \* a dangling pointer was used or an empty MaybeUninit read

vars == <<gen, TASK_STACK, stk, cur, rootProg, obs, calls, moves, ub>>

\* the most generators one run creates
MaxGens == CHOOSE n \in 1..64 :
    /\ \A p \in TreeProgs : CountGens(p) <= n
    /\ \E p \in TreeProgs : CountGens(p) = n

GenIds == 1..MaxGens
Ctxs == 0..MaxGens

\* a pointer to the Task of generator g, taken when the Generator was at a
Ptr(g, a) == [g |-> g, a |-> a]
NullPtr == Ptr(0, 0)

\* the pointer is to where the Task is now
Valid(ptr) ==
    /\ ptr.g \in GenIds
    /\ gen[ptr.g].state = "live"
    /\ gen[ptr.g].addr = ptr.a

\* a Generator that from_fn_ptr has not made yet
Unborn ==
    [state |-> "unborn", first |-> TRUE, addr |-> 0, ty |-> "T", prog |-> <<>>,
     started |-> FALSE, func |-> "None", data_in |-> Uninit, data_out |-> Uninit,
     rx_snap |-> -1, tx_snap |-> "uninit", startArg |-> NullPtr,
     \* what follows is not in the program: who made the Generator, the guards
     \* made and the destructors run on the producer's stack, what next returned,
     \* how often next entered the task, whether drop raised
     owner |-> 0, made |-> {}, ran |-> <<>>, results |-> <<>>, enters |-> 0,
     dropRaised |-> FALSE]

\* sys::new_task: a Task that holds func and is not started; tx_snap zeroed,
\* rx_snap and the mailboxes uninitialised
new_task(prog, ty) ==
    [Unborn EXCEPT !.state = "live", !.ty = ty, !.prog = prog, !.func = "Some",
                   !.started = FALSE, !.tx_snap = "zeroed"]

\* Generator::from_fn_ptr: the new task, and first = true
from_fn_ptr(prog, ty) == [new_task(prog, ty) EXCEPT !.first = TRUE]

(***************************************************************************)
(* Frames.                                                                 *)
(***************************************************************************)
RootFrame == [k |-> "root", phase |-> "idle", ret |-> Unit]
UserFrame(prog) ==
    [k |-> "user", prog |-> prog, pc |-> 1, locals |-> <<>>, wait |-> FALSE, ret |-> Unit]
NextFrame(g) == [k |-> "next", g |-> g, phase |-> "begin", ret |-> Unit]
EnterWithFrame(g, val) ==
    [k |-> "enter_with", g |-> g, val |-> val, this |-> NullPtr, phase |-> "push",
     result |-> Uninit, ret |-> Unit]
DropFrame(g) == [k |-> "drop", g |-> g, phase |-> "begin", ret |-> Unit]
YeetFrame == [k |-> "yeet", ret |-> Unit]
YieldFrame(val, ty) ==
    [k |-> "yield_internal", val |-> val, ty |-> ty, task |-> NullPtr,
     resumed_task |-> NullPtr, phase |-> "peek", ret |-> Unit]
StartFrame(task) == [k |-> "generator_start", task |-> task, phase |-> "begin", ret |-> Unit]
YeetAllFrame(g) == [k |-> "yeet_all", g |-> g, phase |-> "loop", ret |-> Unit]
UnwindFrame(p) == [k |-> "unwind", what |-> p, ret |-> Unit]
CatchFrame == [k |-> "catch", ret |-> Unit]

GuardLocal(id) == [t |-> "guard", id |-> id, slot |-> 0, g |-> 0]
GenLocal(slot, g) == [t |-> "gen", id |-> 0, slot |-> slot, g |-> g]

Top(c) == stk[c][Len(stk[c])]
Below(c) == stk[c][Len(stk[c]) - 1]
Front(s) == SubSeq(s, 1, Len(s) - 1)
RepTop(s, f) == [s EXCEPT ![Len(s)] = f]
\* the callee on top returns m to the frame below it
RetTo(s, m) == [Front(s) EXCEPT ![Len(s) - 1].ret = m]
\* the frame on top is of kind k in context cur
At(k) == cur \in Ctxs /\ stk[cur] # <<>> /\ Top(cur).k = k
AtPhase(k, ph) == At(k) /\ Top(cur).phase = ph

Init ==
    /\ gen = [g \in GenIds |-> Unborn]
    /\ TASK_STACK = <<>>
    /\ stk = [c \in Ctxs |-> IF c = 0 THEN <<RootFrame>> ELSE <<>>]
    /\ cur = 0
    /\ rootProg \in RootProgs
    /\ obs = <<>>
    /\ calls = 0
    /\ moves = 0
    /\ ub = FALSE

(***************************************************************************)
(* The consumer side: Generator::next, enter_with, sys::enter, Drop.       *)
(***************************************************************************)

\* variant of NextBegin: a Generator whose fault was raised is remembered as
\* exhausted, and next returns None without entering the task
NextBeginShortCircuits ==
    /\ AtPhase("next", "begin")
    /\ LET f == Top(cur)
           seen == \E i \in 1..Len(gen[f.g].results) : gen[f.g].results[i].tag = "Panic"
       IN
       IF seen
       THEN /\ gen' = [gen EXCEPT ![f.g].results = Append(@, None)]
            /\ stk' = [stk EXCEPT ![cur] = RetTo(@, None)]
       ELSE /\ gen' = [gen EXCEPT ![f.g].first = FALSE]
            /\ stk' = [stk EXCEPT ![cur] =
                          Append(RepTop(@, [f EXCEPT !.phase = "match"]),
                                 EnterWithFrame(f.g, Continue))]
    /\ UNCHANGED <<TASK_STACK, cur, rootProg, obs, calls, moves, ub>>

\* variant of NextBegin: first is left as it is
NextBeginKeepsFirst ==
    /\ AtPhase("next", "begin")
    /\ LET f == Top(cur) IN
       stk' = [stk EXCEPT ![cur] =
                  Append(RepTop(@, [f EXCEPT !.phase = "match"]),
                         EnterWithFrame(f.g, Continue))]
    /\ UNCHANGED <<gen, TASK_STACK, cur, rootProg, obs, calls, moves, ub>>

\* Generator::next (lib.rs 91-93): clear first, then enter_with(Continue)
NextBegin ==
    /\ AtPhase("next", "begin")
    /\ LET f == Top(cur) IN
       /\ gen' = [gen EXCEPT ![f.g].first = FALSE]
       /\ stk' = [stk EXCEPT ![cur] =
                     Append(RepTop(@, [f EXCEPT !.phase = "match"]),
                            EnterWithFrame(f.g, Continue))]
    /\ UNCHANGED <<TASK_STACK, cur, rootProg, obs, calls, moves, ub>>

\* variant of EnterWithPush: the pointer is the one to where from_fn_ptr built
\* the Task, kept since then
EnterWithPushStale ==
    /\ AtPhase("enter_with", "push")
    /\ LET f == Top(cur)
           this == Ptr(f.g, 0)
       IN
       /\ TASK_STACK' = Append(TASK_STACK, this)
       /\ stk' = [stk EXCEPT ![cur] = RepTop(@, [f EXCEPT !.this = this, !.phase = "enter"])]
    /\ UNCHANGED <<gen, cur, rootProg, obs, calls, moves, ub>>

\* enter_with (lib.rs 56-59): take the address of the Task and push it
EnterWithPush ==
    /\ AtPhase("enter_with", "push")
    /\ LET f == Top(cur)
           this == Ptr(f.g, gen[f.g].addr)
       IN
       /\ TASK_STACK' = Append(TASK_STACK, this)
       /\ stk' = [stk EXCEPT ![cur] = RepTop(@, [f EXCEPT !.this = this, !.phase = "enter"])]
    /\ UNCHANGED <<gen, cur, rootProg, obs, calls, moves, ub>>

\* variant of SwitchToProducer: the producer's snapshot is not kept across a
\* yield, so every enter lands on a fresh generator_start
SwitchToProducerRestarts(s, tx, arg, task) == <<StartFrame(arg)>>

\* variant of SwitchToProducer: rax is not carried over the switch, and the
\* producer's switch_ctx returns the pointer it was called with
SwitchToProducerKeepsPtr(s, tx, arg, task) ==
    IF tx = "start" THEN <<StartFrame(arg)>>
    ELSE RepTop(s, [s[Len(s)] EXCEPT !.resumed_task = s[Len(s)].task, !.phase = "resumed"])

\* what the producer's stack is when the consumer's switch_ctx lands on tx_snap:
\* a fresh snapshot starts generator_start with the pointer impl_start stored,
\* a parked one returns from the producer's switch_ctx with the consumer's
\* pointer as its result (x64.rs 112: rax)
SwitchToProducer(s, tx, arg, task) ==
    IF tx = "start" THEN <<StartFrame(arg)>>
    ELSE RepTop(s, [s[Len(s)] EXCEPT !.resumed_task = task, !.phase = "resumed"])

\* variant of Enter: the write of data_in is inside the `if !started`
EnterWritesAtStart ==
    /\ AtPhase("enter_with", "enter")
    /\ LET f == Top(cur)
           task == f.this
           t == gen[task.g]
           tx == IF ~t.started THEN "start" ELSE t.tx_snap
           arg == IF ~t.started THEN task ELSE t.startArg
       IN
       /\ gen' = [gen EXCEPT ![task.g] =
                     [t EXCEPT !.started = TRUE, !.startArg = arg,
                               !.data_in = IF ~t.started THEN f.val ELSE @,
                               !.rx_snap = cur, !.tx_snap = "running",
                               !.enters = IF f.val = Continue THEN @ + 1 ELSE @]]
       /\ stk' = [stk EXCEPT ![cur] = RepTop(@, [f EXCEPT !.phase = "switched"]),
                             ![task.g] = SwitchToProducer(@, tx, arg, task)]
       /\ cur' = task.g
       /\ ub' = (ub \/ ~Valid(task) \/ tx \notin {"start", "parked"})
    /\ UNCHANGED <<TASK_STACK, rootProg, obs, calls, moves>>

\* sys::enter up to its switch (mod.rs 90-103): start the task if it is not
\* started, write data_in, save the consumer in rx_snap and run the producer
Enter ==
    /\ AtPhase("enter_with", "enter")
    /\ LET f == Top(cur)
           task == f.this
           t == gen[task.g]
           tx == IF ~t.started THEN "start" ELSE t.tx_snap
           arg == IF ~t.started THEN task ELSE t.startArg
       IN
       /\ gen' = [gen EXCEPT ![task.g] =
                     [t EXCEPT !.started = TRUE, !.startArg = arg, !.data_in = f.val,
                               !.rx_snap = cur, !.tx_snap = "running",
                               !.enters = IF f.val = Continue THEN @ + 1 ELSE @]]
       /\ stk' = [stk EXCEPT ![cur] = RepTop(@, [f EXCEPT !.phase = "switched"]),
                             ![task.g] = SwitchToProducer(@, tx, arg, task)]
       /\ cur' = task.g
       /\ ub' = (ub \/ ~Valid(task) \/ tx \notin {"start", "parked"})
    /\ UNCHANGED <<TASK_STACK, rootProg, obs, calls, moves>>

\* sys::enter after its switch (mod.rs 106): move the yield out of data_out
EnterReturn ==
    /\ AtPhase("enter_with", "switched")
    /\ LET f == Top(cur)
           task == f.this
       IN
       /\ gen' = [gen EXCEPT ![task.g].data_out = Uninit]
       /\ stk' = [stk EXCEPT ![cur] =
                     RepTop(@, [f EXCEPT !.result = gen[task.g].data_out, !.phase = "pop"])]
       /\ ub' = (ub \/ ~Valid(task) \/ gen[task.g].data_out = Uninit)
    /\ UNCHANGED <<TASK_STACK, cur, rootProg, obs, calls, moves>>

\* variant of EnterWithPop: the pop is left out on the way of a Panic, which
\* next is about to raise
EnterWithPopUnlessPanic ==
    /\ AtPhase("enter_with", "pop")
    /\ TASK_STACK' = IF Top(cur).result.tag = "Panic" THEN TASK_STACK ELSE Front(TASK_STACK)
    /\ stk' = [stk EXCEPT ![cur] = RetTo(@, Top(cur).result)]
    /\ UNCHANGED <<gen, cur, rootProg, obs, calls, moves, ub>>

\* enter_with (lib.rs 75-85): pop the task stack and return the yield
EnterWithPop ==
    /\ AtPhase("enter_with", "pop")
    /\ TASK_STACK' = Front(TASK_STACK)
    /\ stk' = [stk EXCEPT ![cur] = RetTo(@, Top(cur).result)]
    /\ UNCHANGED <<gen, cur, rootProg, obs, calls, moves, ub>>

\* variant of NextResult: the fault is raised with a payload of next's own
NextResultWraps(y) ==
    CASE y.tag = "StopIteration" -> None
      [] y.tag = "Panic" -> Panic("generator panicked")
      [] y.tag = "Value" -> Some(y.v)

\* the match of Generator::next (lib.rs 93-97): what next does with a yield;
\* a Panic is raised again with the payload it came with
NextResult(y) ==
    CASE y.tag = "StopIteration" -> None
      [] y.tag = "Panic" -> Panic(y.p)
      [] y.tag = "Value" -> Some(y.v)

\* Generator::next returns, or resumes the producer's unwind on this stack
NextMatch ==
    /\ AtPhase("next", "match")
    /\ LET f == Top(cur)
           r == NextResult(f.ret)
       IN
       /\ gen' = [gen EXCEPT ![f.g].results = Append(@, r)]
       /\ stk' = [stk EXCEPT ![cur] =
                     IF r.tag = "Panic" THEN RepTop(@, UnwindFrame(r.p))
                     ELSE RetTo(@, r)]
    /\ UNCHANGED <<TASK_STACK, cur, rootProg, obs, calls, moves, ub>>

\* variants of NeedsNoCleanup: drop never cancels the task; drop cancels a task
\* that was never entered as well
NeverCleansUp(first) == TRUE
AlwaysCleansUp(first) == FALSE

\* Drop::drop (lib.rs 102): a task that was never entered needs no cleanup
NeedsNoCleanup(first) == first

\* Drop::drop (lib.rs 101-108): nothing to do for a task that was never
\* entered, else enter it with Cancel
DropBegin ==
    /\ AtPhase("drop", "begin")
    /\ LET f == Top(cur) IN
       IF NeedsNoCleanup(gen[f.g].first)
       THEN /\ gen' = [gen EXCEPT ![f.g].state = "dropped"]
            /\ stk' = [stk EXCEPT ![cur] = RetTo(@, Unit)]
       ELSE /\ gen' = gen
            /\ stk' = [stk EXCEPT ![cur] =
                          Append(RepTop(@, [f EXCEPT !.phase = "loop"]),
                                 EnterWithFrame(f.g, Cancel))]
    /\ UNCHANGED <<TASK_STACK, cur, rootProg, obs, calls, moves, ub>>

\* variant of DropVerdict: a Value ends the loop as StopIteration does
DropVerdictStopsOnValue(y) ==
    CASE y.tag = "StopIteration" -> "break"
      [] y.tag = "Panic" -> IF y.p = CancelTask THEN "break" ELSE "raise"
      [] y.tag = "Value" -> "break"

\* variant of DropVerdict: the payload of a Panic is not looked at
DropVerdictRaisesAll(y) ==
    CASE y.tag = "StopIteration" -> "break"
      [] y.tag = "Panic" -> "raise"
      [] y.tag = "Value" -> "again"

\* the match of Drop::drop (lib.rs 108-126): "break", "raise" or "again"
DropVerdict(y) ==
    CASE y.tag = "StopIteration" -> "break"
      [] y.tag = "Panic" -> IF y.p = CancelTask THEN "break" ELSE "raise"
      [] y.tag = "Value" -> "again"

\* Drop::drop after an enter_with(Cancel); when drop is left, by return or by
\* unwinding, the fields of the Generator (the Task and its stack) are freed
DropMatch ==
    /\ AtPhase("drop", "loop")
    /\ LET f == Top(cur)
           d == DropVerdict(f.ret)
       IN
       CASE d = "break" ->
              /\ gen' = [gen EXCEPT ![f.g].state = "dropped"]
              /\ stk' = [stk EXCEPT ![cur] = RetTo(@, Unit)]
         [] d = "raise" ->
              /\ gen' = [gen EXCEPT ![f.g].state = "dropped", ![f.g].dropRaised = TRUE]
              /\ stk' = [stk EXCEPT ![cur] = RepTop(@, UnwindFrame(f.ret.p))]
         [] d = "again" ->
              /\ gen' = gen
              /\ stk' = [stk EXCEPT ![cur] = Append(@, EnterWithFrame(f.g, Cancel))]
    /\ UNCHANGED <<TASK_STACK, cur, rootProg, obs, calls, moves, ub>>

(***************************************************************************)
(* The producer side: generator_start, yield_internal, sys::exit, yeet,    *)
(* yeet_all.                                                               *)
(***************************************************************************)

\* generator_start (mod.rs 46-51): take func out of the task and call it
GeneratorStart ==
    /\ AtPhase("generator_start", "begin")
    /\ LET f == Top(cur)
           t == gen[f.task.g]
       IN
       /\ gen' = [gen EXCEPT ![f.task.g].func = "None"]
       /\ stk' = [stk EXCEPT ![cur] =
                     IF t.func = "Some"
                     THEN Append(RepTop(@, [f EXCEPT !.phase = "func"]), UserFrame(t.prog))
                     ELSE RepTop(@, [f EXCEPT !.phase = "loop"])]
       /\ ub' = (ub \/ ~Valid(f.task))
    /\ UNCHANGED <<TASK_STACK, cur, rootProg, obs, calls, moves>>

\* variant of CatchFault: the fault is kept, and yielded again on every resume
CatchFaultAgain ==
    /\ At("unwind")
    /\ Len(stk[cur]) >= 2
    /\ Below(cur).k = "generator_start"
    /\ Below(cur).phase = "func"
    /\ stk' = [stk EXCEPT ![cur] =
                  Append(@, YieldFrame(Panic(Top(cur).what), gen[Below(cur).task.g].ty))]
    /\ UNCHANGED <<gen, TASK_STACK, cur, rootProg, obs, calls, moves, ub>>

\* variant of CatchFault: the inner catch_unwind lets the sentinel through to
\* the outer one
CatchFaultPassesSentinel ==
    /\ At("unwind")
    /\ Len(stk[cur]) >= 2
    /\ Below(cur).k = "generator_start"
    /\ Below(cur).phase = "func"
    /\ LET u == Top(cur)
           f == Below(cur)
       IN
       IF u.what = CancelTask
       THEN /\ cur' = -1
            /\ stk' = stk
       ELSE /\ cur' = cur
            /\ stk' = [stk EXCEPT ![cur] =
                          Append(RepTop(Front(@), [f EXCEPT !.phase = "loop"]),
                                 YieldFrame(Panic(u.what), gen[f.task.g].ty))]
    /\ UNCHANGED <<gen, TASK_STACK, rootProg, obs, calls, moves, ub>>

\* generator_start (mod.rs 51-54): the inner catch_unwind took a fault of the
\* generator function: yield it as a Panic
CatchFault ==
    /\ At("unwind")
    /\ Len(stk[cur]) >= 2
    /\ Below(cur).k = "generator_start"
    /\ Below(cur).phase = "func"
    /\ LET u == Top(cur)
           f == Below(cur)
       IN
       stk' = [stk EXCEPT ![cur] =
                  Append(RepTop(Front(@), [f EXCEPT !.phase = "loop"]),
                         YieldFrame(Panic(u.what), gen[f.task.g].ty))]
    /\ UNCHANGED <<gen, TASK_STACK, cur, rootProg, obs, calls, moves, ub>>

\* generator_start (mod.rs 59-61): the generator function is done, with or
\* without a fault: yield StopIteration, again and again
StopLoop ==
    /\ At("generator_start")
    /\ Top(cur).phase \in {"func", "loop"}
    /\ LET f == Top(cur) IN
       stk' = [stk EXCEPT ![cur] =
                  Append(RepTop(@, [f EXCEPT !.phase = "loop"]),
                         YieldFrame(StopIteration, gen[f.task.g].ty))]
    /\ UNCHANGED <<gen, TASK_STACK, cur, rootProg, obs, calls, moves, ub>>

\* variant of PeekTask: the task a yield goes to is the topmost task of the
\* stack that has the type of the yield
PeekTaskOfType(stack, ty) ==
    LET fit == {i \in 1..Len(stack) : gen[stack[i].g].ty = ty} IN
    IF stack = <<>> THEN [err |-> OutsideMsg, task |-> NullPtr]
    ELSE IF fit = {} THEN [err |-> WrongTypeMsg, task |-> NullPtr]
    ELSE [err |-> "", task |-> stack[CHOOSE i \in fit : \A j \in fit : j <= i]]

\* yield_internal (lib.rs 145-156): the task a yield goes to is the top of the
\* task stack; "outside" with no task, "wrong" when it is a Task of another type
PeekTask(stack, ty) ==
    IF stack = <<>> THEN [err |-> OutsideMsg, task |-> NullPtr]
    ELSE LET top == stack[Len(stack)] IN
         IF gen[top.g].ty # ty THEN [err |-> WrongTypeMsg, task |-> NullPtr]
         ELSE [err |-> "", task |-> top]

\* variant of YieldPeek: the yield takes the top off the task stack
YieldPeekPops ==
    /\ AtPhase("yield_internal", "peek")
    /\ LET f == Top(cur)
           got == PeekTask(TASK_STACK, f.ty)
       IN
       /\ stk' = [stk EXCEPT ![cur] =
                     IF got.err # "" THEN RepTop(@, UnwindFrame(got.err))
                     ELSE RepTop(@, [f EXCEPT !.task = got.task, !.phase = "exit"])]
       /\ TASK_STACK' = IF got.err # "" THEN TASK_STACK ELSE Front(TASK_STACK)
    /\ UNCHANGED <<gen, cur, rootProg, obs, calls, moves, ub>>

\* variant of Exit: the switch comes before the write of data_out
ExitSwitchesFirst ==
    /\ AtPhase("yield_internal", "exit")
    /\ LET f == Top(cur)
           t == gen[f.task.g]
       IN
       /\ gen' = [gen EXCEPT ![f.task.g].tx_snap = "parked"]
       /\ stk' = [stk EXCEPT ![cur] = RepTop(@, [f EXCEPT !.phase = "parked"])]
       /\ cur' = t.rx_snap
       /\ ub' = (ub \/ ~Valid(f.task) \/ t.rx_snap \notin Ctxs)
    /\ UNCHANGED <<TASK_STACK, rootProg, obs, calls, moves>>

\* yield_internal up to the call of sys::exit; the task stack is only read
YieldPeek ==
    /\ AtPhase("yield_internal", "peek")
    /\ LET f == Top(cur)
           got == PeekTask(TASK_STACK, f.ty)
       IN
       stk' = [stk EXCEPT ![cur] =
                  IF got.err # "" THEN RepTop(@, UnwindFrame(got.err))
                  ELSE RepTop(@, [f EXCEPT !.task = got.task, !.phase = "exit"])]
    /\ UNCHANGED <<gen, TASK_STACK, cur, rootProg, obs, calls, moves, ub>>

\* variant of Exit: the consumer's snapshot is one for the thread, that of the
\* outermost consumer, not one for each task
ExitToRoot ==
    /\ AtPhase("yield_internal", "exit")
    /\ LET f == Top(cur)
           t == gen[f.task.g]
       IN
       /\ gen' = [gen EXCEPT ![f.task.g].data_out = f.val,
                             ![f.task.g].tx_snap = "parked"]
       /\ stk' = [stk EXCEPT ![cur] = RepTop(@, [f EXCEPT !.phase = "parked"])]
       /\ cur' = 0
       /\ ub' = (ub \/ ~Valid(f.task) \/ t.rx_snap \notin Ctxs)
    /\ UNCHANGED <<TASK_STACK, rootProg, obs, calls, moves>>

\* sys::exit up to its switch (mod.rs 110-118): write data_out, save the
\* producer in tx_snap and run the consumer parked in rx_snap
Exit ==
    /\ AtPhase("yield_internal", "exit")
    /\ LET f == Top(cur)
           t == gen[f.task.g]
       IN
       /\ gen' = [gen EXCEPT ![f.task.g].data_out = f.val,
                             ![f.task.g].tx_snap = "parked"]
       /\ stk' = [stk EXCEPT ![cur] = RepTop(@, [f EXCEPT !.phase = "parked"])]
       /\ cur' = t.rx_snap
       /\ ub' = (ub \/ ~Valid(f.task) \/ t.rx_snap \notin Ctxs)
    /\ UNCHANGED <<TASK_STACK, rootProg, obs, calls, moves>>

\* variant of ExitReadPtr: data_in is read through the pointer exit was called
\* with
ExitReadsOldPtr(task, resumed_task) == task

\* sys::exit (mod.rs 120): the pointer data_in is read through is the one the
\* switch returned, not the one exit was called with
ExitReadPtr(task, resumed_task) == resumed_task

\* sys::exit after its switch (mod.rs 120): move the signal out of data_in; a
\* read through a dangling pointer may give either signal
ExitResume ==
    /\ AtPhase("yield_internal", "resumed")
    /\ LET f == Top(cur)
           p == ExitReadPtr(f.task, f.resumed_task)
       IN
       IF Valid(p) /\ gen[p.g].data_in # Uninit
       THEN /\ gen' = [gen EXCEPT ![p.g].data_in = Uninit]
            /\ stk' = [stk EXCEPT ![cur] = RetTo(@, gen[p.g].data_in)]
            /\ ub' = ub
       ELSE /\ gen' = gen
            /\ \E s \in {Continue, Cancel} : stk' = [stk EXCEPT ![cur] = RetTo(@, s)]
            /\ ub' = TRUE
    /\ UNCHANGED <<TASK_STACK, cur, rootProg, obs, calls, moves>>

\* variant of YeetRaises: yeet unwinds whatever the consumer sent
YeetAlwaysRaises(s) == TRUE

\* variant of YeetRaises: yeet returns whatever the consumer sent
YeetNeverRaises(s) == FALSE

\* the match of yeet (lib.rs 180-192): return on Continue, unwind with the
\* CancelTask payload on Cancel
YeetRaises(s) == s.tag = "Cancel"

\* yeet after yield_internal has returned
YeetMatch ==
    /\ At("yeet")
    /\ stk' = [stk EXCEPT ![cur] =
                  IF YeetRaises(Top(cur).ret) THEN RepTop(@, UnwindFrame(CancelTask))
                  ELSE RetTo(@, Unit)]
    /\ UNCHANGED <<gen, TASK_STACK, cur, rootProg, obs, calls, moves, ub>>

\* yeet (lib.rs 179-180): yield_internal(Yield::Value(val))
CallYeet(s, v, ty) == Append(Append(s, YeetFrame), YieldFrame(Value(v), ty))

\* yeet_all (lib.rs 197): the for loop asks the iterator for its next item
YeetAllNext ==
    /\ AtPhase("yeet_all", "loop")
    /\ LET f == Top(cur) IN
       stk' = [stk EXCEPT ![cur] =
                  Append(RepTop(@, [f EXCEPT !.phase = "got"]), NextFrame(f.g))]
    /\ UNCHANGED <<gen, TASK_STACK, cur, rootProg, obs, calls, moves, ub>>

\* variant of YeetAllGot: an `if let` in place of the `for`, so that only the
\* first item of the iterator is yielded
YeetAllGotOnce ==
    /\ AtPhase("yeet_all", "got")
    /\ LET f == Top(cur) IN
       stk' = [stk EXCEPT ![cur] =
                  IF f.ret.tag = "Some"
                  THEN CallYeet(@, f.ret.v, gen[f.g].ty)
                  ELSE Append(RepTop(@, [f EXCEPT !.phase = "end"]), DropFrame(f.g))]
    /\ UNCHANGED <<gen, TASK_STACK, cur, rootProg, obs, calls, moves, ub>>

\* yeet_all (lib.rs 197-199): yeet the item, or leave the loop and drop the
\* iterator when there is none
YeetAllGot ==
    /\ AtPhase("yeet_all", "got")
    /\ LET f == Top(cur) IN
       stk' = [stk EXCEPT ![cur] =
                  IF f.ret.tag = "Some"
                  THEN CallYeet(RepTop(@, [f EXCEPT !.phase = "loop"]), f.ret.v,
                                gen[f.g].ty)
                  ELSE Append(RepTop(@, [f EXCEPT !.phase = "end"]), DropFrame(f.g))]
    /\ UNCHANGED <<gen, TASK_STACK, cur, rootProg, obs, calls, moves, ub>>

\* yeet_all (lib.rs 200) returns
YeetAllEnd ==
    /\ AtPhase("yeet_all", "end")
    /\ stk' = [stk EXCEPT ![cur] = RetTo(@, Unit)]
    /\ UNCHANGED <<gen, TASK_STACK, cur, rootProg, obs, calls, moves, ub>>

(***************************************************************************)
(* The statements of a generator function, its return and its unwinding.   *)
(***************************************************************************)
Instr == Top(cur).prog[Top(cur).pc]
AtInstr(op) ==
    /\ At("user")
    /\ ~Top(cur).wait
    /\ Top(cur).pc <= Len(Top(cur).prog)
    /\ Instr.op = op

\* the local of a frame that holds the generator of a slot
LocalOf(f, slot) ==
    CHOOSE i \in 1..Len(f.locals) : f.locals[i].t = "gen" /\ f.locals[i].slot = slot
Without(s, i) == SubSeq(s, 1, i - 1) \o SubSeq(s, i + 1, Len(s))

\* the generator that the next from_fn_ptr makes
FreeGen == CHOOSE g \in GenIds :
    gen[g].state = "unborn" /\ \A h \in 1..(g - 1) : gen[h].state # "unborn"

\* yeet(v)
UserYeet ==
    /\ AtInstr("yeet")
    /\ LET f == Top(cur) IN
       stk' = [stk EXCEPT ![cur] =
                  CallYeet(RepTop(@, [f EXCEPT !.pc = @ + 1]), Instr.v, Instr.ty)]
    /\ UNCHANGED <<gen, TASK_STACK, cur, rootProg, obs, calls, moves, ub>>

\* the guards of a producer are numbered as they are made
GuardId == Cardinality(gen[cur].made) + 1

\* a local with a destructor comes to life
UserGuard ==
    /\ AtInstr("guard")
    /\ LET f == Top(cur) IN
       /\ stk' = [stk EXCEPT ![cur] =
                     RepTop(@, [f EXCEPT !.pc = @ + 1,
                                         !.locals = Append(@, GuardLocal(GuardId))])]
       /\ gen' = [gen EXCEPT ![cur].made = @ \cup {GuardId}]
    /\ UNCHANGED <<TASK_STACK, cur, rootProg, obs, calls, moves, ub>>

\* the generator function faults
UserPanic ==
    /\ AtInstr("panic")
    /\ stk' = [stk EXCEPT ![cur] = Append(@, UnwindFrame(Instr.p))]
    /\ UNCHANGED <<gen, TASK_STACK, cur, rootProg, obs, calls, moves, ub>>

\* let slot = Generator::from_fn_ptr(prog)
UserNew ==
    /\ AtInstr("new")
    /\ LET f == Top(cur)
           g == FreeGen
       IN
       /\ gen' = [gen EXCEPT ![g] = [from_fn_ptr(Instr.prog, Instr.ty) EXCEPT !.owner = cur]]
       /\ stk' = [stk EXCEPT ![cur] =
                     RepTop(@, [f EXCEPT !.pc = @ + 1,
                                         !.locals = Append(@, GenLocal(Instr.slot, g))])]
    /\ UNCHANGED <<TASK_STACK, cur, rootProg, obs, calls, moves, ub>>

\* slot.next()
UserPull ==
    /\ AtInstr("pull")
    /\ LET f == Top(cur)
           g == f.locals[LocalOf(f, Instr.slot)].g
       IN
       stk' = [stk EXCEPT ![cur] = Append(RepTop(@, [f EXCEPT !.wait = TRUE]), NextFrame(g))]
    /\ UNCHANGED <<gen, TASK_STACK, cur, rootProg, obs, calls, moves, ub>>

\* if let Some(v) = (what slot.next() returned) { yeet(v) }
UserPulled ==
    /\ At("user")
    /\ Top(cur).wait
    /\ LET f == Top(cur)
           s == RepTop(stk[cur], [f EXCEPT !.pc = @ + 1, !.wait = FALSE])
       IN
       stk' = [stk EXCEPT ![cur] =
                  IF f.ret.tag = "Some" THEN CallYeet(s, f.ret.v, "T") ELSE s]
    /\ UNCHANGED <<gen, TASK_STACK, cur, rootProg, obs, calls, moves, ub>>

\* yeet_all(slot): the Generator is passed by value, that is, moved
UserYeetAll ==
    /\ AtInstr("all")
    /\ LET f == Top(cur)
           i == LocalOf(f, Instr.slot)
           g == f.locals[i].g
       IN
       /\ gen' = [gen EXCEPT ![g].addr = @ + 1]
       /\ stk' = [stk EXCEPT ![cur] =
                     Append(RepTop(@, [f EXCEPT !.pc = @ + 1, !.locals = Without(@, i)]),
                            YeetAllFrame(g))]
    /\ UNCHANGED <<TASK_STACK, cur, rootProg, obs, calls, moves, ub>>

\* catch_unwind(|| { body }): the closure runs in a frame of its own; in a
\* loop the statement is the next one again
UserCatch ==
    /\ AtInstr("catch")
    /\ LET f == Top(cur) IN
       stk' = [stk EXCEPT ![cur] =
                  Append(Append(RepTop(@, [f EXCEPT !.pc = IF Instr.again THEN @ ELSE @ + 1]),
                                CatchFrame),
                         UserFrame(Instr.body))]
    /\ UNCHANGED <<gen, TASK_STACK, cur, rootProg, obs, calls, moves, ub>>

\* the closure of a catch_unwind returned
CatchDone ==
    /\ At("catch")
    /\ stk' = [stk EXCEPT ![cur] = RetTo(@, Unit)]
    /\ UNCHANGED <<gen, TASK_STACK, cur, rootProg, obs, calls, moves, ub>>

\* the catch_unwind of a generator function takes a fault, whatever its
\* payload, and the function goes on
CatchUnwind ==
    /\ At("unwind")
    /\ Len(stk[cur]) >= 2
    /\ Below(cur).k = "catch"
    /\ stk' = [stk EXCEPT ![cur] = SubSeq(@, 1, Len(@) - 2)]
    /\ UNCHANGED <<gen, TASK_STACK, cur, rootProg, obs, calls, moves, ub>>

\* a destructor that runs for an unwind lets a fault of its own out, or a
\* fault of generator_start itself reaches its outer catch_unwind (mod.rs 46,
\* 65): the process aborts
Abort ==
    /\ At("unwind")
    /\ Len(stk[cur]) >= 2
    /\ \/ Below(cur).k = "unwind"
       \/ Below(cur).k = "generator_start" /\ Below(cur).phase # "func"
    /\ cur' = -1
    /\ UNCHANGED <<gen, TASK_STACK, stk, rootProg, obs, calls, moves, ub>>

\* the stack s of context c after the last local of its frame at depth n has
\* been taken off the frame and its destructor called: a guard's destructor is
\* counted, a Generator's is Drop::drop
DropLastLocal(s, n) ==
    LET f == s[n]
        l == f.locals[Len(f.locals)]
        t == [s EXCEPT ![n] = [f EXCEPT !.locals = Front(@)]]
    IN IF l.t = "gen" THEN Append(t, DropFrame(l.g)) ELSE t

\* the destructors that have run in context c after that step
RanAfter(c, s, n) ==
    LET l == s[n].locals[Len(s[n].locals)] IN
    IF l.t = "guard" THEN [gen EXCEPT ![c].ran = Append(@, l.id)] ELSE gen

\* the generator function returns: its locals are dropped, the last one
\* first, and then control is back in generator_start
UserReturn ==
    /\ At("user")
    /\ ~Top(cur).wait
    /\ Top(cur).pc > Len(Top(cur).prog)
    /\ LET s == stk[cur]
           n == Len(s)
       IN
       IF s[n].locals = <<>>
       THEN /\ stk' = [stk EXCEPT ![cur] = RetTo(s, Unit)]
            /\ gen' = gen
       ELSE /\ stk' = [stk EXCEPT ![cur] = DropLastLocal(s, n)]
            /\ gen' = RanAfter(cur, s, n)
    /\ UNCHANGED <<TASK_STACK, cur, rootProg, obs, calls, moves, ub>>

\* variant of Unwind: yeet_all keeps its iterator where no unwind drops it
UnwindLeaksIterator ==
    /\ At("unwind")
    /\ Len(stk[cur]) >= 2
    /\ Below(cur).k \in {"user", "yeet_all", "yeet"}
    /\ LET s == stk[cur]
           n == Len(s)
           u == s[n]
           b == s[n - 1]
           left == Append(SubSeq(s, 1, n - 2), u)
       IN
       CASE b.k = "user" /\ b.locals # <<>> ->
              /\ stk' = [stk EXCEPT ![cur] = DropLastLocal(s, n - 1)]
              /\ gen' = RanAfter(cur, s, n - 1)
         [] OTHER ->
              /\ stk' = [stk EXCEPT ![cur] = left]
              /\ gen' = gen
    /\ UNCHANGED <<TASK_STACK, cur, rootProg, obs, calls, moves, ub>>

\* a fault unwinds one step: it drops the last local of the frame it is in,
\* or leaves the frame when none is left.  The frames it passes are those of
\* the generator function, yeet_all (which owns its iterator) and yeet.
Unwind ==
    /\ At("unwind")
    /\ Len(stk[cur]) >= 2
    /\ Below(cur).k \in {"user", "yeet_all", "yeet"}
    /\ LET s == stk[cur]
           n == Len(s)
           u == s[n]
           b == s[n - 1]
           left == Append(SubSeq(s, 1, n - 2), u)
       IN
       CASE b.k = "user" /\ b.locals # <<>> ->
              /\ stk' = [stk EXCEPT ![cur] = DropLastLocal(s, n - 1)]
              /\ gen' = RanAfter(cur, s, n - 1)
         [] b.k = "yeet_all" /\ b.phase \notin {"end", "dropped"} ->
              /\ stk' = [stk EXCEPT ![cur] =
                            Append([s EXCEPT ![n - 1].phase = "dropped"], DropFrame(b.g))]
              /\ gen' = gen
         [] OTHER ->
              /\ stk' = [stk EXCEPT ![cur] = left]
              /\ gen' = gen
    /\ UNCHANGED <<TASK_STACK, cur, rootProg, obs, calls, moves, ub>>

(***************************************************************************)
(* The root consumer: it makes one Generator and then calls next, moves    *)
(* the Generator or drops it, in any order; a fault that next raises is    *)
(* caught and noted.                                                       *)
(***************************************************************************)
RootIdle == cur = 0 /\ AtPhase("root", "idle")

\* the next calls the root consumer makes at most
MaxCalls == Len(Expected(rootProg).vals) + 1 + ExtraCalls

RootNew ==
    /\ RootIdle
    /\ gen[1].state = "unborn"
    /\ gen' = [gen EXCEPT ![1] = from_fn_ptr(rootProg, "T")]
    /\ UNCHANGED <<TASK_STACK, stk, cur, rootProg, obs, calls, moves, ub>>

RootNext ==
    /\ RootIdle
    /\ gen[1].state = "live"
    /\ calls < MaxCalls
    /\ calls' = calls + 1
    /\ stk' = [stk EXCEPT ![0] =
                  Append(RepTop(@, [Top(0) EXCEPT !.phase = "wait"]), NextFrame(1))]
    /\ UNCHANGED <<gen, TASK_STACK, cur, rootProg, obs, moves, ub>>

\* next returned Some or None
RootObserve ==
    /\ cur = 0
    /\ AtPhase("root", "wait")
    /\ obs' = Append(obs, Top(0).ret)
    /\ stk' = [stk EXCEPT ![0] = RepTop(@, [Top(0) EXCEPT !.phase = "idle"])]
    /\ UNCHANGED <<gen, TASK_STACK, cur, rootProg, calls, moves, ub>>

\* a fault reached the root consumer, out of next or out of drop
RootCatch ==
    /\ cur = 0
    /\ At("unwind")
    /\ Below(0).k = "root"
    /\ obs' = IF Below(0).phase = "wait" THEN Append(obs, Panic(Top(0).what)) ELSE obs
    /\ stk' = [stk EXCEPT ![0] =
                  <<[Below(0) EXCEPT !.phase = IF @ \in {"wait", "outside"} THEN "idle" ELSE @]>>]
    /\ UNCHANGED <<gen, TASK_STACK, cur, rootProg, calls, moves, ub>>

\* the root consumer, which no Generator runs, calls yeet
RootYeet ==
    /\ RootIdle
    /\ stk' = [stk EXCEPT ![0] = CallYeet(RepTop(@, [Top(0) EXCEPT !.phase = "outside"]), 0, "T")]
    /\ UNCHANGED <<gen, TASK_STACK, cur, rootProg, obs, calls, moves, ub>>

\* the Generator is moved to another address (tests/flat.rs 57-64)
RootMove ==
    /\ RootIdle
    /\ gen[1].state = "live"
    /\ moves < MaxMoves
    /\ moves' = moves + 1
    /\ gen' = [gen EXCEPT ![1].addr = @ + 1]
    /\ UNCHANGED <<TASK_STACK, stk, cur, rootProg, obs, calls, ub>>

RootDrop ==
    /\ RootIdle
    /\ gen[1].state = "live"
    /\ stk' = [stk EXCEPT ![0] =
                  Append(RepTop(@, [Top(0) EXCEPT !.phase = "dropping"]), DropFrame(1))]
    /\ UNCHANGED <<gen, TASK_STACK, cur, rootProg, obs, calls, moves, ub>>

Next ==
    \/ RootNew \/ RootNext \/ RootObserve \/ RootCatch \/ RootMove \/ RootDrop \/ RootYeet
    \/ NextBegin \/ EnterWithPush \/ Enter \/ EnterReturn \/ EnterWithPop \/ NextMatch
    \/ DropBegin \/ DropMatch
    \/ GeneratorStart \/ CatchFault \/ StopLoop
    \/ YieldPeek \/ Exit \/ ExitResume \/ YeetMatch
    \/ YeetAllNext \/ YeetAllGot \/ YeetAllEnd
    \/ UserYeet \/ UserGuard \/ UserPanic \/ UserNew \/ UserPull \/ UserPulled
    \/ UserYeetAll \/ UserCatch \/ CatchDone \/ CatchUnwind \/ UserReturn \/ Unwind \/ Abort

Spec == Init /\ [][Next]_vars

\* The same program run with generator functions that may loop, under the
\* one scheduling guarantee a single thread gives: the step that is next is
\* taken.
FairProgs == (TreeProgs \ {Dfs(0)}) \cup LoopProgs

FairInit ==
    /\ gen = [g \in GenIds |-> Unborn]
    /\ TASK_STACK = <<>>
    /\ stk = [c \in Ctxs |-> IF c = 0 THEN <<RootFrame>> ELSE <<>>]
    /\ cur = 0
    /\ rootProg \in FairProgs
    /\ obs = <<>>
    /\ calls = 0
    /\ moves = 0
    /\ ub = FALSE

FairSpec == FairInit /\ [][Next]_vars /\ WF_vars(Next)

(***************************************************************************)
(* Properties.                                                             *)
(***************************************************************************)
Range(s) == {s[i] : i \in 1..Len(s)}
NoDup(s) == \A i, j \in 1..Len(s) : i # j => s[i] # s[j]
Born(g) == gen[g].state # "unborn"
Dropped(g) == gen[g].state = "dropped"
InTaskStack(g) == \E i \in 1..Len(TASK_STACK) : TASK_STACK[i].g = g
\* the frames of every context
FramesOf(c) == {stk[c][i] : i \in 1..Len(stk[c])}
AllFrames == UNION {FramesOf(c) : c \in Ctxs}
\* next has returned a fault of generator g
SawPanic(g) == \E i \in 1..Len(gen[g].results) : gen[g].results[i].tag = "Panic"
\* the results a consumer got are those the generator function is written to give
ConformsOf(results, prog, ty) ==
    \A i \in 1..Len(results) : results[i] = ExpectedResultOf(prog, ty, i)
Conforms(results, prog) == ConformsOf(results, prog, "T")
HasAll(prog) == \E i \in 1..Len(prog) : prog[i].op = "all"

\* C1: a generator function that yields v0..vn and returns makes the calls of
\* next return Some(v0), ..., Some(vn) in that order and None on every call
\* after that, for the root consumer and for every consumer in a tree.
C1_ValuesThenNone ==
    /\ \A g \in GenIds :
         (Born(g) /\ ExpectedOf(gen[g].prog, gen[g].ty).end = "return") =>
             LET vals == ExpectedOf(gen[g].prog, gen[g].ty).vals IN
             \A i \in 1..Len(gen[g].results) :
                 gen[g].results[i] = IF i <= Len(vals) THEN Some(vals[i]) ELSE None
    /\ Expected(rootProg).end = "return" =>
         LET vals == Expected(rootProg).vals IN
         \A i \in 1..Len(obs) : obs[i] = IF i <= Len(vals) THEN Some(vals[i]) ELSE None

\* two values were returned and then None twice
C1_Witness ==
    /\ Expected(rootProg).end = "return"
    /\ Len(Expected(rootProg).vals) = 2
    /\ Len(obs) = 4
    /\ obs[3] = None
    /\ obs[4] = None

\* C2: a generator function that yields v0..vk and then faults with payload p
\* makes next return Some(v0)..Some(vk) and the call after that raise a fault
\* with the payload p; the fault comes out of enter_with as Yield::Panic(p), and
\* when next raises it the task is no longer on the task stack.
C2_FaultReraised ==
    /\ \A g \in GenIds :
         (Born(g) /\ ExpectedOf(gen[g].prog, gen[g].ty).end # "return") =>
             \A i \in 1..Len(gen[g].results) :
                 i <= Len(ExpectedOf(gen[g].prog, gen[g].ty).vals) + 1 =>
                     gen[g].results[i] = ExpectedResultOf(gen[g].prog, gen[g].ty, i)
    /\ Expected(rootProg).end # "return" =>
         \A i \in 1..Len(obs) :
             i <= Len(Expected(rootProg).vals) + 1 => obs[i] = ExpectedResult(rootProg, i)
    /\ \A c \in Ctxs :
         (stk[c] # <<>> /\ Top(c).k = "next" /\ Top(c).phase = "match"
            /\ Top(c).ret.tag = "Panic") =>
             /\ ~InTaskStack(Top(c).g)
             /\ Top(c).ret = Panic(ExpectedOf(gen[Top(c).g].prog, gen[Top(c).g].ty).end)
             /\ Len(gen[Top(c).g].results) = Len(ExpectedOf(gen[Top(c).g].prog, gen[Top(c).g].ty).vals)

\* the root consumer got a value and then a fault that crossed two producers
C2_Witness ==
    /\ rootProg = ChildFault
    /\ Len(obs) = 3
    /\ obs[3] = Panic("inner")

\* C3: once next has raised the producer's fault, every later call of next on
\* that Generator returns None: no value, and no fault a second time.
C3_NoneAfterPanic ==
    /\ \A i, j \in 1..Len(obs) : (i < j /\ obs[i].tag = "Panic") => obs[j] = None
    /\ \A g \in GenIds : \A i, j \in 1..Len(gen[g].results) :
         (i < j /\ gen[g].results[i].tag = "Panic") => gen[g].results[j] = None

\* the fault was raised after a value, and next was called twice more
C3_Witness ==
    /\ Len(obs) = 4
    /\ obs[2].tag = "Panic"
    /\ obs[4] = None

\* C4 as claimed: after next has raised the producer's fault, no later next
\* enters the task: there is no enter_with(Continue) for that Generator.
C4_ShortCircuit ==
    \A g \in GenIds :
        SawPanic(g) =>
            ~\E f \in AllFrames : f.k = "enter_with" /\ f.g = g /\ f.val = Continue

\* C4 as amended: after next has raised the producer's fault, every later next
\* enters the task again, one enter for each result; the producer is then in
\* the StopIteration loop of generator_start, outside the generator function,
\* and what enter_with hands to next is StopIteration.
C4_ReentersAndStops ==
    \A g \in GenIds :
        /\ Len(gen[g].results) <= gen[g].enters
        /\ (SawPanic(g) /\ ~Dropped(g)) =>
             /\ stk[g] # <<>>
             /\ stk[g][1].k = "generator_start"
             /\ stk[g][1].phase = "loop"
             /\ \A i \in 2..Len(stk[g]) : stk[g][i].k = "yield_internal"
             /\ \A f \in AllFrames :
                  (f.k = "next" /\ f.g = g /\ f.phase = "match" /\ f.ret # Unit) =>
                      f.ret = StopIteration

\* a next after the fault is inside sys::enter, the producer runs its loop
C4_Witness ==
    /\ SawPanic(1)
    /\ cur = 1
    /\ gen[1].enters = Len(gen[1].results) + 1
    /\ \E f \in FramesOf(0) : f.k = "enter_with" /\ f.val = Continue /\ f.phase = "switched"

\* C5: when a Generator whose producer catches no faults is dropped, every
\* destructor that was live on the producer's stack has run exactly once, the
\* Generators the producer held are dropped as well, and drop has raised
\* nothing.
C5_DropRunsDestructorsOnce ==
    \A g \in GenIds :
        /\ NoDup(gen[g].ran)
        /\ Range(gen[g].ran) \subseteq gen[g].made
        /\ (Dropped(g) /\ ~Catches(gen[g].prog)) =>
             /\ Range(gen[g].ran) = gen[g].made
             /\ ~gen[g].dropRaised
             /\ \A h \in GenIds : (Born(h) /\ gen[h].owner = g) => Dropped(h)

\* the root's Generator was dropped while parked in yeet after two pulls, with
\* two guards live and holding a parked child with a guard of its own
C5_Witness ==
    /\ rootProg = Holder
    /\ Dropped(1)
    /\ obs = <<Some(1), Some(4)>>
    /\ gen[1].ran = <<2, 1>>
    /\ \E h \in GenIds : gen[h].owner = 1 /\ Dropped(h) /\ gen[h].ran = <<1>>
    /\ \E h \in GenIds : gen[h].owner = 1 /\ Dropped(h) /\ gen[h].first

\* C6: the cancellation handshake, step by step.  A yeet that is resumed with
\* Cancel unwinds with the CancelTask payload, and one resumed with Continue
\* returns to the generator function; generator_start catches the CancelTask
\* unwind and yields Panic(CancelTask); a drop that gets Panic(CancelTask)
\* ends without raising.
C6_Step ==
    LET s == stk[cur]
        t == stk'[cur]
    IN
    /\ (At("yeet") /\ Top(cur).ret = Cancel) =>
          (Len(t) = Len(s) /\ t[Len(t)] = UnwindFrame(CancelTask))
    /\ (At("yeet") /\ Top(cur).ret = Continue) =>
          (t = RetTo(s, Unit) /\ t[Len(t)].k \in {"user", "yeet_all"})
    /\ (At("unwind") /\ Top(cur).what = CancelTask /\ Len(s) >= 2
          /\ Below(cur).k = "generator_start") =>
          (t[Len(t)].k = "yield_internal" /\ t[Len(t)].val = Panic(CancelTask))
    /\ (AtPhase("drop", "loop") /\ Top(cur).ret = Panic(CancelTask)) =>
          /\ t = RetTo(s, Unit)
          /\ gen'[Top(cur).g].state = "dropped"
          /\ ~gen'[Top(cur).g].dropRaised

C6_CancelHandshake == [][C6_Step]_vars

\* a drop has got the acknowledgement Panic(CancelTask) from a producer that
\* was parked in yeet
C6_Witness ==
    /\ AtPhase("drop", "loop")
    /\ Top(cur).ret = Panic(CancelTask)
    /\ gen[Top(cur).g].results # <<>>

\* C7: when Drop::drop of a Generator is left, its producer is not running
\* and has no frame of the generator function (it never started, or it is
\* inside generator_start only); the Task is released at that point, and from
\* then on the task is not entered and nothing of it changes.
C7_Released ==
    \A g \in GenIds :
        Dropped(g) =>
            /\ cur # g
            /\ ~InTaskStack(g)
            /\ \A f \in FramesOf(g) : f.k \in {"generator_start", "yield_internal"}
            /\ \A f \in FramesOf(g) : f.k = "yield_internal" => f.phase = "parked"
            /\ ~\E f \in AllFrames : f.k \in {"enter_with", "next", "drop"} /\ f.g = g

C7_StaysReleased ==
    \A g \in GenIds : Dropped(g) => (gen'[g] = gen[g] /\ stk'[g] = stk[g])

C7_ProducerDoneAtDrop == [](C7_Released) /\ [][C7_StaysReleased]_vars

\* a drop has returned and a drop has raised: a Generator parked in yeet was
\* dropped by its producer's unwind, and the drop of that producer, which had
\* caught the cancellation and then faulted, raised the fault
C7_Witness ==
    \E g, h \in GenIds :
        /\ Dropped(g)
        /\ gen[g].dropRaised
        /\ gen[h].owner = g
        /\ Dropped(h)
        /\ ~gen[h].dropRaised
        /\ gen[h].func = "None"
        /\ gen[h].ran # <<>>
        /\ gen[h].results = <<Some(1)>>

\* C8: from_fn_ptr does not run the generator function, and a Generator on
\* which next was never called is dropped without entering the task: while
\* first is true the task is not started, func is still in it, nothing was
\* pushed for it, no switch to it was made and its producer has no stack.
C8_UnenteredUntouched ==
    \A g \in GenIds :
        (Born(g) /\ gen[g].first) =>
            /\ ~gen[g].started
            /\ gen[g].func = "Some"
            /\ gen[g].enters = 0
            /\ gen[g].tx_snap = "zeroed"
            /\ gen[g].data_in = Uninit
            /\ stk[g] = <<>>
            /\ ~InTaskStack(g)
            /\ ~\E f \in AllFrames : f.k = "enter_with" /\ f.g = g

\* a Generator of the root and one held by a producer were dropped unentered
C8_Witness ==
    \/ Dropped(1) /\ gen[1].first /\ Len(rootProg) > 0
    \/ \E g \in GenIds : g # 1 /\ Dropped(g) /\ gen[g].first

\* tests/recursive.rs 79: the order in which dfs yields the depths
RECURSIVE Preorder(_)
Preorder(d) ==
    IF d >= DfsDepth THEN <<d>> ELSE <<d>> \o Preorder(d + 1) \o Preorder(d + 1)

\* C9: what a consumer gets from a producer that calls yeet_all on a
\* Generator is what the producer yields itself with, in place of the
\* yeet_all, what iterating that Generator to its end gives there; the root
\* of the dfs tree gets the depths in depth-first order.
C9_YieldFromInOrder ==
    /\ HasAll(rootProg) => Conforms(obs, rootProg)
    /\ \A g \in GenIds : (Born(g) /\ HasAll(gen[g].prog)) => ConformsOf(gen[g].results, gen[g].prog, gen[g].ty)
    /\ rootProg = Dfs(0) =>
         \A i \in 1..Len(obs) :
             obs[i] = IF i <= Len(Preorder(0)) THEN Some(Preorder(0)[i]) ELSE None

\* the dfs tree was iterated to its end
C9_Witness ==
    /\ rootProg = Dfs(0)
    /\ Len(obs) = Len(Preorder(0)) + 1
    /\ obs[Len(obs)] = None

\* every pointer to a Task that is about to be used is to where the Task is
PointersCurrent ==
    /\ \A i \in 1..Len(TASK_STACK) : Valid(TASK_STACK[i])
    /\ \A f \in AllFrames :
         /\ (f.k = "enter_with" /\ f.phase \in {"enter", "switched", "pop"}) => Valid(f.this)
         /\ (f.k = "yield_internal" /\ f.phase = "exit") => Valid(f.task)
         /\ (f.k = "yield_internal" /\ f.phase = "resumed") => Valid(f.resumed_task)

\* C10: moving the Generator between two calls of next, before the first or
\* while the producer is parked, changes nothing of what next returns: the
\* results are those of the generator function, as without a move; and no
\* mailbox or snapshot is reached through an address the Generator has left.
C10_MoveInvisible ==
    /\ ~ub
    /\ PointersCurrent
    /\ moves > 0 => Conforms(obs, rootProg)

\* the Generator was moved before its first next and again while its producer
\* was parked, and next returned a second value after that
C10_Witness ==
    /\ gen[1].startArg.a >= 1
    /\ gen[1].addr > gen[1].startArg.a
    /\ Len(obs) >= 2
    /\ obs[Len(obs)].tag = "Some"
    /\ gen[1].enters = Len(obs)
    /\ TASK_STACK = <<>>

\* the task of generator g is entered: it is on the task stack, or an
\* enter_with for it is in progress
Entered(g) ==
    \/ InTaskStack(g)
    \/ \E c \in Ctxs : \E i \in 1..Len(stk[c]) :
         stk[c][i].k = "enter_with" /\ stk[c][i].g = g

\* C11 as claimed: the address of a Task is the same from from_fn_ptr to drop.
C11_AddressStable ==
    [][\A g \in GenIds :
          (gen[g].state = "live" /\ gen'[g].state = "live") => gen'[g].addr = gen[g].addr]_vars

C11_Step ==
    /\ \A g \in GenIds :
         (gen[g].state = "live" /\ gen'[g].state = "live" /\ gen'[g].addr # gen[g].addr) =>
             /\ ~Entered(g)
             /\ cur # g
             /\ (gen[g].started => gen[g].tx_snap = "parked")
             /\ stk'[g] = stk[g]
    /\ Len(TASK_STACK') > Len(TASK_STACK) =>
         LET this == TASK_STACK'[Len(TASK_STACK')] IN
         /\ TASK_STACK' = Append(TASK_STACK, this)
         /\ this.a = gen'[this.g].addr
         /\ gen'[this.g].state = "live"

\* C11 as amended: the Task is a field of the Generator and has its address;
\* the address changes when the Generator is moved, which happens only while
\* the task is not entered (not on the task stack, its producer not started or
\* parked in exit), and the pointer that enter_with pushes is taken at that
\* call, to where the Task is then.
C11_AddressFollowsGenerator == [][C11_Step]_vars

\* the Task was entered at one address, moved while its producer was parked,
\* and is entered again at its new address
C11_Witness ==
    /\ gen[1].started
    /\ gen[1].startArg.a < gen[1].addr
    /\ TASK_STACK = <<Ptr(1, gen[1].addr)>>
    /\ cur = 1

\* the generator function of g has a yeet of another type than g's
Mistyped(g) ==
    \E i \in 1..Len(gen[g].prog) :
        gen[g].prog[i].op = "yeet" /\ gen[g].prog[i].ty # gen[g].ty

\* a yield is about to look for its task, and there is none or the one on top
\* of the task stack has another type
BadYield ==
    /\ AtPhase("yield_internal", "peek")
    /\ \/ TASK_STACK = <<>>
       \/ gen[TASK_STACK[Len(TASK_STACK)].g].ty # Top(cur).ty

C12_Step ==
    BadYield =>
        /\ stk'[cur] = RepTop(stk[cur],
                              UnwindFrame(IF TASK_STACK = <<>> THEN OutsideMsg ELSE WrongTypeMsg))
        /\ \A c \in Ctxs : c # cur => stk'[c] = stk[c]
        /\ UNCHANGED <<gen, TASK_STACK, cur, obs>>

\* C12: a yeet whose type is not that of the task on top of the task stack, or
\* that is made with the task stack empty, faults where it is called, with the
\* message of its case, and does nothing else: no mailbox is written, no
\* switch is made, the task stack is as it was.  In a producer the fault is
\* what that producer's own consumer gets from next, after the values the
\* producer yielded before; no task further down the stack gets the value.
C12_BadYieldFaults ==
    /\ [][C12_Step]_vars
    /\ [](\A g \in GenIds :
            (Born(g) /\ Mistyped(g)) => ConformsOf(gen[g].results, gen[g].prog, gen[g].ty))

\* the child, a Generator<U>, made a yeet::<T> under a Generator<T>: the
\* child's consumer got the fault, and so did the root consumer after it; and
\* the root consumer is in a yeet of its own
C12_Witness ==
    /\ rootProg = Mixed
    /\ obs = <<Some(0), Some(1), Panic(WrongTypeMsg)>>
    /\ \E g \in GenIds : gen[g].ty = "U" /\ gen[g].results = <<Some(1), Panic(WrongTypeMsg)>>
    /\ cur = 0
    /\ BadYield
    /\ TASK_STACK = <<>>

\* context c is parked in the switch of sys::enter: the task it entered has
\* c's snapshot in rx_snap and has not yielded since
ParkedInEnter(c) ==
    /\ stk[c] # <<>>
    /\ Top(c).k = "enter_with"
    /\ Top(c).phase = "switched"
    /\ gen[Top(c).g].state = "live"
    /\ gen[Top(c).g].rx_snap = c
    /\ gen[Top(c).g].tx_snap = "running"

\* producer c is parked in the switch of sys::exit
ParkedInExit(c) ==
    /\ c \in GenIds
    /\ stk[c] # <<>>
    /\ Top(c).k = "yield_internal"
    /\ Top(c).phase = "parked"
    /\ gen[c].tx_snap = "parked"

\* C13: as long as the process runs, one task runs, the root consumer or a
\* started producer, and it is at no switch; every other task that has a
\* stack (the root consumer, and every started producer that was not dropped)
\* is parked at a switch, as a consumer in sys::enter or as a producer in
\* sys::exit; a producer that was not started has no stack.
C13_OneRunning ==
    cur # -1 =>
        /\ cur \in Ctxs
        /\ stk[cur] # <<>>
        /\ ~ParkedInEnter(cur)
        /\ ~ParkedInExit(cur)
        /\ cur \in GenIds =>
             (gen[cur].state = "live" /\ gen[cur].started /\ gen[cur].tx_snap = "running")
        /\ \A c \in Ctxs \ {cur} :
             IF c = 0 \/ (gen[c].started /\ ~Dropped(c))
             THEN ParkedInEnter(c) \/ ParkedInExit(c)
             ELSE Dropped(c) \/ stk[c] = <<>>

\* a producer runs its generator function while its consumer, a producer
\* too, and the root consumer are parked in sys::enter, and another started
\* producer is parked in sys::exit
C13_Witness ==
    /\ cur \in GenIds \ {1}
    /\ Top(cur).k = "user"
    /\ ParkedInEnter(0)
    /\ ParkedInEnter(1)
    /\ \E k \in GenIds : ParkedInExit(k) /\ ~Dropped(k)

\* the frame is an enter_with between its push and its pop
Pushed(f) == f.k = "enter_with" /\ f.phase \in {"enter", "switched", "pop"}

\* the enter_with calls, of next or of drop, that are between push and pop
EntersInProgress ==
    UNION {{<<c, i>> : i \in {j \in 1..Len(stk[c]) : Pushed(stk[c][j])}} : c \in Ctxs}

\* C14: the depth of the task stack is the number of enter_with calls in
\* progress, and its i-th entry was pushed by the task of the entry below it
\* (the first by the root consumer); where a producer runs outside such a call
\* of its own, the top of the task stack is the producer's own task, and where
\* the root consumer does, the stack is empty: so when an enter_with has
\* returned, be it with a Panic that next raises, the stack is what it was
\* before the call.
C14_TaskStackMatchesEnters ==
    cur # -1 =>
        /\ Len(TASK_STACK) = Cardinality(EntersInProgress)
        /\ \A i \in 1..Len(TASK_STACK) :
             LET c == IF i = 1 THEN 0 ELSE TASK_STACK[i - 1].g IN
             \E j \in 1..Len(stk[c]) : Pushed(stk[c][j]) /\ stk[c][j].this = TASK_STACK[i]
        /\ (cur \in GenIds /\ ~Pushed(Top(cur))) =>
             (TASK_STACK # <<>> /\ TASK_STACK[Len(TASK_STACK)].g = cur)
        /\ (cur = 0 /\ ~Pushed(Top(0))) => TASK_STACK = <<>>

\* a producer's next is about to raise the fault of a child, whose entry is
\* off the stack, while the producer's own is on it
C14_Witness ==
    /\ cur \in GenIds
    /\ AtPhase("next", "match")
    /\ Top(cur).ret.tag = "Panic"
    /\ TASK_STACK = <<Ptr(cur, gen[cur].addr)>>

\* C15: the mailboxes are written and read in turn.  data_out is empty when
\* sys::exit writes it and while the producer runs, and holds a yield when the
\* consumer, back from the switch of sys::enter, reads it: one write for each
\* read.  data_in holds a signal when the producer, back from the switch of
\* sys::exit, reads it.  A read moves the content out, and no read finds a
\* mailbox empty.
C15_MailboxAlternation ==
    /\ \A g \in GenIds :
         (gen[g].state = "live" /\ gen[g].tx_snap \in {"zeroed", "running"}) =>
             gen[g].data_out = Uninit
    /\ \A c \in Ctxs : \A i \in 1..Len(stk[c]) :
         LET f == stk[c][i] IN
         /\ (f.k = "yield_internal" /\ f.phase = "exit") =>
               (Valid(f.task) /\ gen[f.task.g].data_out = Uninit)
         /\ (f.k = "yield_internal" /\ f.phase = "resumed") =>
               (Valid(f.resumed_task) /\ gen[f.resumed_task.g].data_in \in {Continue, Cancel})
         /\ (f.k = "enter_with" /\ f.phase = "switched" /\ c = cur) =>
               (Valid(f.this) /\ gen[f.this.g].data_out # Uninit
                  /\ gen[f.this.g].tx_snap = "parked")
         /\ (f.k = "enter_with" /\ f.phase = "pop") =>
               (f.result # Uninit /\ gen[f.this.g].data_out = Uninit)

\* a producer that was resumed with Continue before is back from the switch
\* of sys::exit and about to read the Cancel of a drop
C15_Witness ==
    /\ cur = 1
    /\ AtPhase("yield_internal", "resumed")
    /\ gen[1].data_in = Cancel
    /\ Len(gen[1].results) >= 2
    /\ gen[1].data_out = Uninit

\* the generator functions of the root that hand to yeet_all a child that
\* faults, after values of their own
AllFaultProgs == {PanicSimple0, ChildFault}

\* in context c the fault that a child's next raised in yeet_all is unwinding,
\* and the drop of that child, the iterator of yeet_all, has its answer
DropInUnwoundAll(c) ==
    \E i \in 1..(Len(stk[c]) - 2) :
        /\ stk[c][i].k = "yeet_all"
        /\ stk[c][i + 1].k = "unwind"
        /\ stk[c][i + 1].what = ExpectedOf(gen[stk[c][i].g].prog, gen[stk[c][i].g].ty).end
        /\ stk[c][i + 2].k = "drop"
        /\ stk[c][i + 2].g = stk[c][i].g
        /\ stk[c][i + 2].phase = "loop"
        /\ stk[c][i + 2].ret # Unit

\* C16: a producer P hands a child C to yeet_all and C faults with p after P
\* has yielded values.  The root consumer gets P's values, C's values and then
\* the fault with p; the unwind of P drops C, and that drop, which enters C
\* with Cancel, gets StopIteration and returns; the process does not abort,
\* and when the fault has reached the root consumer C is dropped and the task
\* stack is empty.
C16_ChildFaultThroughAll ==
    /\ rootProg \in AllFaultProgs =>
         /\ cur # -1
         /\ Conforms(obs, rootProg)
         /\ (RootIdle /\ obs # <<>> /\ obs[Len(obs)].tag = "Panic") =>
              /\ obs[Len(obs)] = Panic(Expected(rootProg).end)
              /\ TASK_STACK = <<>>
              /\ \A h \in GenIds : (Born(h) /\ gen[h].owner = 1) => Dropped(h)
    /\ \A c \in Ctxs :
         DropInUnwoundAll(c) =>
             /\ Top(c).k = "drop"
             /\ Top(c).ret = StopIteration
             /\ gen[Top(c).g].data_in = Uninit

\* the drop of the child that faulted, called by the unwind of its producer,
\* has StopIteration for its Cancel
C16_Witness ==
    /\ rootProg = ChildFault
    /\ cur = 1
    /\ DropInUnwoundAll(1)
    /\ obs = <<Some(0), Some(1)>>

C17_Step ==
    /\ At("yield_internal") => TASK_STACK' = TASK_STACK
    /\ TASK_STACK' # TASK_STACK =>
         /\ At("enter_with")
         /\ \/ /\ Top(cur).phase = "push"
               /\ TASK_STACK' = Append(TASK_STACK, Ptr(Top(cur).g, gen[Top(cur).g].addr))
               /\ stk'[cur] = RepTop(stk[cur], [Top(cur) EXCEPT !.this = Ptr(Top(cur).g, gen[Top(cur).g].addr),
                                                                !.phase = "enter"])
            \/ /\ Top(cur).phase = "pop"
               /\ Top(cur).result # Uninit
               /\ TASK_STACK # <<>>
               /\ TASK_STACK' = Front(TASK_STACK)
               /\ TASK_STACK[Len(TASK_STACK)] = Top(cur).this

\* C17: no step of yield_internal, be it one that faults, changes the task
\* stack; the stack changes only in enter_with, by the push of the Task's
\* address before sys::enter is called and by the pop of that entry after
\* sys::enter has returned a yield, on the consumer's side.
C17_YieldOnlyPeeks == [][C17_Step]_vars

\* a yield has found its task on a stack of two and is about to exit
C17_Witness ==
    /\ AtPhase("yield_internal", "exit")
    /\ Len(TASK_STACK) = 2
    /\ Top(cur).task = TASK_STACK[2]
    /\ Top(cur).val.tag = "Value"

\* C18 as claimed: when a yield has given control back to the consumer, the
\* task that yielded is off the task stack.
C18_PoppedBeforeExit ==
    \A c \in Ctxs : \A i \in 1..Len(stk[c]) :
        (c = cur /\ stk[c][i].k = "enter_with" /\ stk[c][i].phase = "switched") =>
            ~InTaskStack(stk[c][i].g)

\* C18 as amended: a yield finds its task on top of the task stack and leaves
\* it there: the entry is on top when sys::exit writes data_out, with data_out
\* still empty, and on top when the consumer is back from the switch, with the
\* yield in data_out; the consumer takes it off after sys::enter has returned.
C18_PoppedByConsumer ==
    \A c \in Ctxs : \A i \in 1..Len(stk[c]) :
        LET f == stk[c][i] IN
        /\ (f.k = "yield_internal" /\ f.phase = "exit") =>
              /\ TASK_STACK # <<>>
              /\ TASK_STACK[Len(TASK_STACK)] = f.task
              /\ gen[f.task.g].data_out = Uninit
              /\ cur = f.task.g
        /\ (c = cur /\ f.k = "enter_with" /\ f.phase = "switched") =>
              /\ TASK_STACK # <<>>
              /\ TASK_STACK[Len(TASK_STACK)] = f.this
              /\ gen[f.g].data_out # Uninit
              /\ stk[f.g] # <<>>
              /\ Top(f.g).k = "yield_internal"
              /\ Top(f.g).phase = "parked"
              /\ Top(f.g).val = gen[f.g].data_out
        /\ (c = cur /\ f.k = "enter_with" /\ f.phase = "pop") =>
              /\ TASK_STACK # <<>>
              /\ TASK_STACK[Len(TASK_STACK)] = f.this

\* a producer has yielded a value to the root consumer, which is back from
\* the switch and has not popped yet
C18_Witness ==
    /\ cur = 0
    /\ AtPhase("enter_with", "switched")
    /\ gen[1].data_out.tag = "Value"
    /\ TASK_STACK = <<Top(0).this>>

\* a drop is in progress in some context
InDrop == \E f \in AllFrames : f.k = "drop"

\* C19: drop's cancellation loop comes to an end for every producer, also for
\* one that catches the sentinel and goes on to yield: a drop that has begun
\* is over at some later point (it returned, it raised, or the process
\* aborted).
C19_DropTerminates == InDrop ~> (cur = -1 \/ ~InDrop)

\* the step drop takes on what an enter_with(Cancel) gave it
C20_Step ==
    (AtPhase("drop", "loop") /\ stk' # stk) =>
        LET f == Top(cur)
            y == f.ret
            s == stk[cur]
            sentinel == y.tag = "Panic" /\ y.p = CancelTask
        IN
        /\ cur' = cur
        /\ (y.tag = "Panic" /\ ~sentinel) =>
               /\ stk'[cur] = RepTop(s, UnwindFrame(y.p))
               /\ gen'[f.g].dropRaised
        /\ y.tag = "Value" =>
               /\ stk'[cur] = Append(s, EnterWithFrame(f.g, Cancel))
               /\ gen'[f.g].state # "dropped"
               /\ gen'[f.g].results = gen[f.g].results
               /\ obs' = obs
        /\ (y.tag = "StopIteration" \/ sentinel) <=> stk'[cur] = RetTo(s, Unit)

\* C20: in drop's cancellation loop a Panic whose payload is not the
\* sentinel is raised again in the dropper with the same payload, a Value is
\* discarded and followed by another enter_with(Cancel), and drop returns
\* exactly on StopIteration or Panic(CancelTask).
C20_DropLoopVerdicts == [][C20_Step]_vars

\* drop was given a Value and has entered the task with Cancel again
C20_Witness ==
    /\ At("enter_with")
    /\ Len(stk[cur]) >= 2
    /\ Top(cur).val = Cancel
    /\ Below(cur).k = "drop"
    /\ Below(cur).ret.tag = "Value"

\* the sentinel, unwinding, has reached generator_start
SentinelAtStart ==
    /\ At("unwind")
    /\ Len(stk[cur]) >= 2
    /\ Top(cur).what = CancelTask
    /\ Below(cur).k = "generator_start"

\* C21 as claimed: the boundary of generator_start that takes the sentinel is
\* the outer one, the one that aborts the process when it is crossed: the
\* inner one, around the generator function, is no longer there when the
\* sentinel arrives.
C21_OuterBoundaryTakesSentinel == SentinelAtStart => Below(cur).phase # "func"

\* the step generator_start takes on the sentinel
C21_Step ==
    (SentinelAtStart /\ vars' # vars) =>
        LET f == Below(cur) IN
        /\ f.phase = "func"
        /\ cur' = cur
        /\ stk'[cur] = Append(RepTop(Front(stk[cur]), [f EXCEPT !.phase = "loop"]),
                              YieldFrame(Panic(CancelTask), gen[f.task.g].ty))

\* C21: the sentinel raised by yeet on Cancel is taken by the inner
\* catch_unwind of generator_start, the one around the generator function:
\* generator_start yields Panic(CancelTask) and goes on to its StopIteration
\* loop; the sentinel never reaches the outer catch_unwind, and the process
\* does not abort.
C21_InnerBoundaryTakesSentinel == [][C21_Step]_vars

\* generator_start has taken the sentinel and yields it as a Panic
C21_Witness ==
    /\ At("yield_internal")
    /\ Len(stk[cur]) >= 2
    /\ Top(cur).val = Panic(CancelTask)
    /\ Below(cur).k = "generator_start"
    /\ Below(cur).phase = "loop"

\* the step a producer takes when it is back from the switch of sys::exit
C22_Step ==
    (AtPhase("yield_internal", "resumed") /\ vars' # vars) =>
        LET f == Top(cur)
            consumer == gen[cur].rx_snap
            e == Top(consumer)
        IN
        /\ consumer \in Ctxs
        /\ e.k = "enter_with" /\ e.phase = "switched" /\ e.g = cur
        /\ f.resumed_task = e.this
        /\ Valid(f.resumed_task)
        /\ stk'[cur] = RetTo(stk[cur], e.val)
        /\ gen'[cur].data_in = Uninit
        /\ ~ub'

\* C22: a producer that resumes in sys::exit reads data_in, and empties it,
\* through the pointer its switch returned, which is the one the consumer's
\* enter in progress was called with, and not through the pointer exit was
\* called with: after a move of the Generator while the producer was parked,
\* the signal is read where the Task is now, and it is the signal that enter
\* sent.
C22_ReadsThroughNewPointer == [][C22_Step]_vars

\* the Generator was moved while its producer was parked in a yeet; the
\* producer has been resumed since and has taken the signal out of data_in
C22_Witness ==
    /\ cur = 1
    /\ At("yeet")
    /\ Top(cur).ret \in {Continue, Cancel}
    /\ gen[1].addr > gen[1].startArg.a
    /\ gen[1].data_in = Uninit
    /\ ~ub

\* first and started agree while no enter of the task is in progress, and
\* Cancel goes only to a task that was started
C23_Inv ==
    /\ \A g \in GenIds :
         (gen[g].state # "unborn" /\ ~Entered(g)) => gen[g].first = ~gen[g].started
    /\ \A f \in AllFrames :
         (f.k = "enter_with" /\ f.val = Cancel) => (gen[f.g].started /\ ~gen[f.g].first)

\* what a step does to the start of the task of generator g
C23_StepOf(g) ==
    \* the enter that starts the task is one of next, with Continue
    /\ (~gen[g].started /\ gen'[g].started) =>
           /\ AtPhase("enter_with", "enter")
           /\ Top(cur).g = g
           /\ Top(cur).val = Continue
           /\ Len(stk[cur]) >= 2 /\ Below(cur).k = "next"
           /\ gen'[g].data_in = Continue
           /\ gen'[g].startArg = Top(cur).this
           /\ stk'[g] = <<StartFrame(Top(cur).this)>>
    \* a task that was started is not started again
    /\ gen[g].started =>
           /\ gen'[g].started
           /\ gen'[g].startArg = gen[g].startArg
           /\ stk'[g] # stk[g] => stk'[g] # <<StartFrame(gen[g].startArg)>>
    \* the generator function begins for a next, never for a drop
    /\ (gen[g].func = "Some" /\ gen'[g].func = "None") =>
           /\ cur = g
           /\ gen[g].rx_snap \in Ctxs
           /\ LET s == stk[gen[g].rx_snap] IN
              /\ Len(s) >= 2
              /\ s[Len(s)].k = "enter_with" /\ s[Len(s)].g = g /\ s[Len(s)].val = Continue
              /\ s[Len(s) - 1].k = "next"
           /\ ~\E f \in AllFrames : f.k = "drop" /\ f.g = g
    \* data_in is read in sys::exit only: generator_start does not read it
    /\ (gen[g].data_in # Uninit /\ gen'[g].data_in = Uninit) =>
           (cur = g /\ AtPhase("yield_internal", "resumed"))

\* C23: Cancel is never sent to a task that has not started.  While no enter
\* of its task is in progress, first of a Generator is the negation of started
\* of its Task; the enter that starts a task is one of next and carries
\* Continue, which generator_start does not read; a task is started once; and
\* the generator function never begins to run for a drop.
C23_CancelOnlyAfterStart == [](C23_Inv) /\ [][\A g \in GenIds : C23_StepOf(g)]_vars

\* a drop has entered a started task with Cancel, and another Generator was
\* dropped without its task ever being started
C23_Witness ==
    /\ \E f \in AllFrames :
         /\ f.k = "enter_with" /\ f.val = Cancel /\ f.phase = "switched"
         /\ gen[f.g].started /\ ~gen[f.g].first /\ gen[f.g].func = "None"
    /\ \E h \in GenIds :
         /\ gen[h].state = "dropped"
         /\ gen[h].first /\ ~gen[h].started /\ gen[h].func = "Some"

\* the generator function has no catch_unwind of its own
NoCatch(prog) == \A i \in 1..Len(prog) : prog[i].op # "catch"

\* how many unwinds with the sentinel there are on the stack of context c
SentinelUnwinds(s) ==
    Cardinality({i \in 1..Len(s) : s[i].k = "unwind" /\ s[i].what = CancelTask})

\* Cancel is sent by drop only, and the Panic(CancelTask) that answers it goes
\* to that drop and not to a next
C24_Inv ==
    /\ \A c \in Ctxs : \A i \in 1..Len(stk[c]) :
         LET f == stk[c][i] IN
         /\ (f.k = "enter_with" /\ f.val = Cancel) =>
               (i > 1 /\ stk[c][i - 1].k = "drop" /\ stk[c][i - 1].g = f.g)
         /\ (f.k = "enter_with" /\ NoCatch(gen[f.g].prog) /\ f.result = Panic(CancelTask)) =>
               f.val = Cancel
         /\ (f.k = "next" /\ NoCatch(gen[f.g].prog)) => f.ret # Panic(CancelTask)
    /\ \A g \in GenIds :
         (Born(g) /\ NoCatch(gen[g].prog)) =>
             /\ \A i \in 1..Len(gen[g].results) : gen[g].results[i] # Panic(CancelTask)
             /\ gen[g].data_out = Panic(CancelTask) =>
                   \E f \in FramesOf(gen[g].rx_snap) :
                       f.k = "enter_with" /\ f.g = g /\ f.val = Cancel
    /\ NoCatch(rootProg) => \A i \in 1..Len(obs) : obs[i] # Panic(CancelTask)

\* an unwind with the sentinel begins in a yeet that was resumed with Cancel
C24_Step ==
    \A c \in Ctxs :
        SentinelUnwinds(stk'[c]) > SentinelUnwinds(stk[c]) =>
            (cur = c /\ At("yeet") /\ Top(cur).ret = Cancel)

\* C24: of a producer that catches no fault, next never gets a Panic whose
\* payload is the sentinel CancelTask: the sentinel is raised only by a yeet
\* that was resumed with Cancel, Cancel is sent only by Drop::drop, and the
\* Panic(CancelTask) that answers it is taken by that drop; so next never
\* raises the sentinel in the code of the consumer.
C24_NextNeverSeesSentinel == [](C24_Inv) /\ [][C24_Step]_vars

\* a producer that catches nothing is unwinding with the sentinel; the drop of
\* a child it holds, which catches nothing either and had yielded, has got the
\* child's Panic(CancelTask)
C24_Witness ==
    /\ cur \in GenIds
    /\ AtPhase("drop", "loop")
    /\ Top(cur).ret = Panic(CancelTask)
    /\ NoCatch(gen[cur].prog)
    /\ NoCatch(gen[Top(cur).g].prog)
    /\ gen[Top(cur).g].results # <<>>
    /\ SentinelUnwinds(stk[cur]) = 1

====
